---- MODULE Spec2Model ----
(***************************************************************************)
(* The parallel chunked aggregation of place_analyzer.py: a dispatcher     *)
(* reads a CSV file line by line, groups the lines into chunks, submits    *)
(* each chunk to a pool of worker processes running analyze_chunk, then    *)
(* merges the partial counters in submission order.                        *)
(*                                                                         *)
(* Strings are sequences of character codes (ASCII), so that Python's      *)
(* string comparison, the CSV split and strftime are computed, not assumed.*)
(* A Counter is a sequence of [key, n] entries in insertion order, as a    *)
(* Python dict keeps them.                                                 *)
(***************************************************************************)
EXTENDS Integers, Sequences, FiniteSets, TLC

VARIABLES
    variant,        \* which place_analyzer.py runs: "Week1" or "root"
    entry,          \* "main" (command line) or "analyze_parallel" (called directly)
    args,           \* main: <<args.start, args.end>> as parsed datetimes; else <<>>
    file,           \* the lines of the file named by filename, header included
    CHUNK_SIZE,     \* module constant CHUNK_SIZE (scaled down)
    NUM_WORKERS,    \* module constant NUM_WORKERS
    pc,             \* position of the dispatcher (the main process)
    start_time,     \* range bounds as strings
    end_time,
    pool,           \* "none", "running" or "terminated"
    f,              \* 0: file not opened; else index of the next line to read
    lines_chunk,    \* the accumulator of the read loop
    tasks,          \* the AsyncResults, in submission order
    t,              \* index of the task the merge loop waits for
    color_counter,  \* the merge accumulators of analyze_parallel
    pos_counter,
    result,         \* <<>> until analyze_parallel returns <<color_counter, pos_counter>>
    error,          \* "" or the exception that ended the run
    completed,      \* history: the task indices in the order the workers finished them
    top_colors,     \* main: what the loop over color_counter.most_common(10) prints
    top_pos,        \* main: what the loop over pos_counter.most_common(10) prints
    best,           \* main (Week 1): <<most placed color, most placed location>>
    \* Week 3/processing.py, calculate_session_lengths
    pc3,            \* position in calculate_session_lengths
    table,          \* the rows [user_id_encoded, timestamp], timestamps in minutes
    user_ids,       \* pc.unique(table['user_id_encoded'])
    user_index,     \* index in user_ids of the user the outer loop is at
    timestamps_py,  \* the sorted timestamps of that user
    ts_index,       \* index in timestamps_py of the next timestamp of the inner loop
    current_session_start,
    prev_timestamp,
    user_sessions,  \* the session lengths of that user, in seconds
    session_lengths \* the list that is returned

\* the variables of Week 3/processing.py
week3 == <<pc3, table, user_ids, user_index, timestamps_py, ts_index,
           current_session_start,
           prev_timestamp, user_sessions, session_lengths>>

\* the variables of place_analyzer.py
week1 == <<variant, entry, args, file, CHUNK_SIZE, NUM_WORKERS, pc, start_time,
           end_time, pool, f, lines_chunk, tasks, t, color_counter, pos_counter,
           result, error, completed, top_colors, top_pos, best>>

vars == <<week1, week3>>

params == <<variant, entry, args, file, CHUNK_SIZE, NUM_WORKERS>>

report == <<top_colors, top_pos, best>>

----------------------------------------------------------------------------
(* Bounds of the model *)

\* longest file body (lines after the header) enumerated exhaustively
MaxLines == 2
\* largest number of milliseconds past the hour of an event timestamp
MaxMilli == 1
\* largest number of rows of the table of placements (Week 3)
MaxRows == 3
\* largest chunk capacity enumerated
MaxChunk == 2
\* largest multiprocessing.cpu_count() enumerated
MaxCpu == 3
\* largest K of most_common(K) the properties are stated for
MaxK == 3

----------------------------------------------------------------------------
(* Strings *)

\* Python's str < str: code point by code point, a proper prefix is smaller
StrLess(a, b) ==
    LET n == IF Len(a) < Len(b) THEN Len(a) ELSE Len(b)
        diff == { i \in 1..n : a[i] # b[i] }
    IN  IF diff = {} THEN Len(a) < Len(b)
        ELSE LET d == CHOOSE i \in diff : \A j \in diff : i <= j IN a[d] < b[d]

StrLE(a, b) == a = b \/ StrLess(a, b)

\* the decimal digits of n, without padding
RECURSIVE DecDigits(_)
DecDigits(n) ==
    IF n < 10 THEN <<48 + n>> ELSE Append(DecDigits(n \div 10), 48 + (n % 10))

\* two digits, zero padded (%m, %d, %H)
Pad2(n) == <<48 + (n \div 10), 48 + (n % 10)>>

----------------------------------------------------------------------------
(* Range validation *)

\* datetime < datetime, for datetimes parsed with '%Y-%m-%d %H'
DtLess(a, b) ==
    \/ a.year < b.year
    \/ a.year = b.year /\ a.month < b.month
    \/ a.year = b.year /\ a.month = b.month /\ a.day < b.day
    \/ a.year = b.year /\ a.month = b.month /\ a.day = b.day /\ a.hour < b.hour

DtLE(a, b) == a = b \/ DtLess(a, b)

\* strftime('%Y-%m-%d %H:00:00.000000 UTC')
convert_date_format(parsed_date) ==
    DecDigits(parsed_date.year) \o <<45>> \o Pad2(parsed_date.month) \o <<45>>
        \o Pad2(parsed_date.day) \o <<32>> \o Pad2(parsed_date.hour)
        \o <<58, 48, 48, 58, 48, 48, 46, 48, 48, 48, 48, 48, 48, 32, 85, 84, 67>>

\* the check as it would be with end_time < start_time: equal bounds accepted
validate_time_range_raises_strict(s, e) == DtLess(e, s)

\* TRUE iff validate_time_range raises argparse.ArgumentTypeError
validate_time_range_raises(s, e) == DtLE(e, s)

validate_time_range(s, e) == <<convert_date_format(s), convert_date_format(e)>>

----------------------------------------------------------------------------
(* Counters *)

EmptyCounter == <<>>

Keys(c) == {c[i].key : i \in DOMAIN c}

\* c[k], which is 0 for a missing key (Counter.__missing__)
Count(c, k) ==
    IF k \in Keys(c) THEN (CHOOSE e \in {c[i] : i \in DOMAIN c} : e.key = k).n ELSE 0

\* c[k] = v: in place for a present key, appended for a new one
SetItem(c, k, v) ==
    IF k \in Keys(c)
    THEN [i \in DOMAIN c |-> IF c[i].key = k THEN [key |-> k, n |-> v] ELSE c[i]]
    ELSE Append(c, [key |-> k, n |-> v])

\* c[k] += 1
Incr(c, k) == SetItem(c, k, Count(c, k) + 1)

\* an assignment in place of Counter.update: the accumulator becomes the partial table
CounterUpdate_replace(c, other) == other

\* a dict.update in place of Counter.update: the count is replaced, not added
RECURSIVE CounterUpdate_overwrite(_, _)
CounterUpdate_overwrite(c, other) ==
    IF other = <<>> THEN c
    ELSE CounterUpdate_overwrite(SetItem(c, Head(other).key, Head(other).n), Tail(other))

\* Counter.update(other): self[elem] = count + self.get(elem, 0), in other's order
RECURSIVE CounterUpdate(_, _)
CounterUpdate(c, other) ==
    IF other = <<>> THEN c
    ELSE CounterUpdate(SetItem(c, Head(other).key, Head(other).n + Count(c, Head(other).key)),
                       Tail(other))

\* the sum of all counts of a counter
RECURSIVE Total(_)
Total(c) == IF c = <<>> THEN 0 ELSE Head(c).n + Total(Tail(c))

\* the entries of c by decreasing count, entries of equal count in insertion
\* order (sorted(..., key=itemgetter(1), reverse=True) is stable)
SortedByCount(c) ==
    LET Rank(i) == 1 + Cardinality({ j \in DOMAIN c : c[j].n > c[i].n })
                     + Cardinality({ j \in DOMAIN c : j < i /\ c[j].n = c[i].n })
    IN  [ r \in DOMAIN c |-> c[CHOOSE i \in DOMAIN c : Rank(i) = r] ]

\* most_common as it would be without reverse=True: increasing counts
most_common_ascending(c, n) ==
    LET Rank(i) == 1 + Cardinality({ j \in DOMAIN c : c[j].n < c[i].n })
                     + Cardinality({ j \in DOMAIN c : j < i /\ c[j].n = c[i].n })
        asc == [ r \in DOMAIN c |-> c[CHOOSE i \in DOMAIN c : Rank(i) = r] ]
    IN  SubSeq(asc, 1, IF n < Len(c) THEN n ELSE Len(c))

\* most_common as it would be with sorted(...)[::-1]: entries of equal count in
\* reverse insertion order
most_common_reversed(c, n) ==
    LET Rank(i) == 1 + Cardinality({ j \in DOMAIN c : c[j].n > c[i].n })
                     + Cardinality({ j \in DOMAIN c : j > i /\ c[j].n = c[i].n })
        desc == [ r \in DOMAIN c |-> c[CHOOSE i \in DOMAIN c : Rank(i) = r] ]
    IN  SubSeq(desc, 1, IF n < Len(c) THEN n ELSE Len(c))

\* most_common as it would be if it gave nothing for a table of fewer than n entries
most_common_exact(c, n) ==
    IF Len(c) < n THEN <<>> ELSE SubSeq(SortedByCount(c), 1, n)

\* Counter.most_common(n): the n first entries of the sorted table, all if fewer
most_common(c, n) ==
    SubSeq(SortedByCount(c), 1, IF n < Len(c) THEN n ELSE Len(c))

----------------------------------------------------------------------------
(* The chunk processor *)

\* the line without its terminator
StripEol(line) ==
    IF line # <<>> /\ line[Len(line)] = 10 THEN SubSeq(line, 1, Len(line) - 1) ELSE line

\* the fields of s, split at each comma: field j lies between the (j-1)th and
\* the jth comma, the ends of s counting as commas
SplitComma(s) ==
    LET commas == { i \in DOMAIN s : s[i] = 44 }
        cuts == commas \cup {0, Len(s) + 1}
        Rank(c) == Cardinality({ d \in cuts : d < c })
        Cut(r) == CHOOSE c \in cuts : Rank(c) = r
    IN  [ j \in 1..(Cardinality(commas) + 1) |-> SubSeq(s, Cut(j - 1) + 1, Cut(j) - 1) ]

\* the row csv.reader yields for a line (no quoting in the input format);
\* a blank line yields the empty row
CsvRow(line) ==
    IF StripEol(line) = <<>> THEN <<>> ELSE SplitComma(StripEol(line))

\* what a chunk computation ends with when a row lacks an index it reads
IndexError == [status |-> "error", color |-> EmptyCounter, pos |-> EmptyCounter]

\* Week 1/place_analyzer.py: the loop of analyze_chunk over the remaining lines
RECURSIVE analyze_rows(_, _, _, _, _)
analyze_rows(lines, s, e, cc, pp) ==
    IF lines = <<>> THEN [status |-> "ok", color |-> cc, pos |-> pp]
    ELSE LET row == CsvRow(Head(lines)) IN
         IF Len(row) < 1 THEN IndexError
         ELSE IF StrLE(s, row[1]) /\ StrLE(row[1], e)
              THEN IF Len(row) < 4 THEN IndexError
                   ELSE analyze_rows(Tail(lines), s, e, Incr(cc, row[3]), Incr(pp, row[4]))
              ELSE analyze_rows(Tail(lines), s, e, cc, pp)

\* analyze_chunk as it would be with the first line of every chunk taken for a header
analyze_chunk_skipfirst(lines, s, e) ==
    IF lines = <<>> THEN analyze_rows(lines, s, e, EmptyCounter, EmptyCounter)
    ELSE analyze_rows(Tail(lines), s, e, EmptyCounter, EmptyCounter)

\* analyze_chunk as it would be with an exclusive upper bound: start <= timestamp < end
RECURSIVE analyze_rows_exclusive(_, _, _, _, _)
analyze_rows_exclusive(lines, s, e, cc, pp) ==
    IF lines = <<>> THEN [status |-> "ok", color |-> cc, pos |-> pp]
    ELSE LET row == CsvRow(Head(lines)) IN
         IF Len(row) < 1 THEN IndexError
         ELSE IF StrLE(s, row[1]) /\ StrLess(row[1], e)
              THEN IF Len(row) < 4 THEN IndexError
                   ELSE analyze_rows_exclusive(Tail(lines), s, e,
                                               Incr(cc, row[3]), Incr(pp, row[4]))
              ELSE analyze_rows_exclusive(Tail(lines), s, e, cc, pp)

analyze_chunk_exclusive(lines, s, e) ==
    analyze_rows_exclusive(lines, s, e, EmptyCounter, EmptyCounter)

\* analyze_chunk as it would be with counter[key] += (1 if in range else 0): a
\* record outside the range leaves its keys in the tables with count 0
RECURSIVE analyze_rows_touch(_, _, _, _, _)
analyze_rows_touch(lines, s, e, cc, pp) ==
    IF lines = <<>> THEN [status |-> "ok", color |-> cc, pos |-> pp]
    ELSE LET row == CsvRow(Head(lines)) IN
         IF Len(row) < 1 THEN IndexError
         ELSE IF StrLE(s, row[1]) /\ StrLE(row[1], e)
              THEN IF Len(row) < 4 THEN IndexError
                   ELSE analyze_rows_touch(Tail(lines), s, e,
                                           Incr(cc, row[3]), Incr(pp, row[4]))
              ELSE IF Len(row) < 4 THEN analyze_rows_touch(Tail(lines), s, e, cc, pp)
                   ELSE analyze_rows_touch(Tail(lines), s, e,
                                           SetItem(cc, row[3], Count(cc, row[3])),
                                           SetItem(pp, row[4], Count(pp, row[4])))

analyze_chunk_touch(lines, s, e) ==
    analyze_rows_touch(lines, s, e, EmptyCounter, EmptyCounter)

analyze_chunk(lines, s, e) == analyze_rows(lines, s, e, EmptyCounter, EmptyCounter)

\* place_analyzer.py (root): pos_counter[row[3]] is read and not incremented
RECURSIVE analyze_rows_root(_, _, _, _, _)
analyze_rows_root(lines, s, e, cc, pp) ==
    IF lines = <<>> THEN [status |-> "ok", color |-> cc, pos |-> pp]
    ELSE LET row == CsvRow(Head(lines)) IN
         IF Len(row) < 1 THEN IndexError
         ELSE IF StrLE(s, row[1]) /\ StrLE(row[1], e)
              THEN IF Len(row) < 4 THEN IndexError
                   ELSE analyze_rows_root(Tail(lines), s, e, Incr(cc, row[3]), pp)
              ELSE analyze_rows_root(Tail(lines), s, e, cc, pp)

analyze_chunk_root(lines, s, e) ==
    analyze_rows_root(lines, s, e, EmptyCounter, EmptyCounter)

ChunkResult(v, lines, s, e) ==
    IF v = "Week1" THEN analyze_chunk(lines, s, e) ELSE analyze_chunk_root(lines, s, e)

----------------------------------------------------------------------------
(* Inputs *)

\* a datetime as parse_datetime_arg returns it: 2022-04-01, hour h
Dt(h) == [year |-> 2022, month |-> 4, day |-> 1, hour |-> h]

\* an event timestamp in DATA_DT_FORMAT: "2022-04-01 hh:00:00.000000 UTC"
Stamp(h) ==
    <<50, 48, 50, 50, 45, 48, 52, 45, 48, 49, 32>> \o Pad2(h)
        \o <<58, 48, 48, 58, 48, 48, 46, 48, 48, 48, 48, 48, 48, 32, 85, 84, 67>>

ColorA == <<65>>
ColorB == <<66>>
ColorC == <<67>>
PosP == <<112>>
PosQ == <<113>>

\* a well-formed line: timestamp,user_id,pixel_color,coordinate
Record(h, color, posn) ==
    Stamp(h) \o <<44, 117, 44>> \o color \o <<44>> \o posn \o <<10>>

\* a malformed line with only two fields: timestamp,user_id
Short(h) == Stamp(h) \o <<44, 117, 10>>

\* a blank line
Blank == <<10>>

\* the header line: "timestamp,user_id,pixel_color,coordinate"
HeaderLine ==
    <<116, 105, 109, 101, 115, 116, 97, 109, 112, 44, 117, 115, 101, 114, 95, 105,
      100, 44, 112, 105, 120, 101, 108, 95, 99, 111, 108, 111, 114, 44, 99, 111,
      111, 114, 100, 105, 110, 97, 116, 101, 10>>

\* the hours the range bounds are drawn from
RangeHours == {13, 15}

\* the lines the small files are made of
Lines == { Record(13, ColorA, PosP), Record(16, ColorB, PosQ), Short(14), Blank }

\* a first line that looks like a record of the range
RecordHeader == Record(14, ColorA, PosQ)

SeqsUpTo(S, n) == UNION { [1..k -> S] : k \in 0..n }

\* five hourly records 12:00 .. 16:00 with categories A, A, B, A, C
Scenario5 ==
    << HeaderLine, Record(12, ColorA, PosP), Record(13, ColorA, PosQ),
       Record(14, ColorB, PosP), Record(15, ColorA, PosQ), Record(16, ColorC, PosP) >>

\* a two-field line among valid records, its timestamp in the range or not
ScenarioShortIn ==
    << HeaderLine, Record(13, ColorA, PosP), Short(14), Record(14, ColorB, PosQ) >>

ScenarioShortOut ==
    << HeaderLine, Record(13, ColorA, PosP), Short(12), Record(14, ColorB, PosQ) >>

\* three categories in the range, two of them with the same count
ScenarioTie ==
    << HeaderLine, Record(14, ColorB, PosQ), Record(13, ColorA, PosP),
       Record(15, ColorC, PosP), Record(14, ColorA, PosQ) >>

\* a category seen first outside the range, and inside it after another one
ScenarioLateFirst ==
    << HeaderLine, Record(16, ColorB, PosQ), Record(13, ColorA, PosP),
       Record(14, ColorB, PosQ) >>

Files ==
    {<<>>} \cup { <<HeaderLine>> \o b : b \in SeqsUpTo(Lines, MaxLines) }
        \cup { <<RecordHeader>> \o b : b \in SeqsUpTo(Lines, 1) }
        \cup { Scenario5, ScenarioShortIn, ScenarioShortOut, ScenarioTie,
               ScenarioLateFirst }

\* the worker count as it would be without the floor: cpu_count() - 1
NumWorkersFor_nofloor(cpu_count) == cpu_count - 1

\* NUM_WORKERS = max(multiprocessing.cpu_count() - 1, 1)
NumWorkersFor(cpu_count) == IF cpu_count - 1 > 1 THEN cpu_count - 1 ELSE 1

\* the K of the two printing loops of main: most_common(10)
TopK == 10

\* <<CHUNK_SIZE, NUM_WORKERS>>
Configs ==
    ((1..MaxChunk) \X { NumWorkersFor(c) : c \in 1..MaxCpu }) \cup { <<5, 1>> }

\* three digits, zero padded
Pad3(n) == <<48 + (n \div 100), 48 + ((n \div 10) % 10), 48 + (n % 10)>>

\* an event timestamp as the data file has it, with milliseconds:
\* "2022-04-01 hh:00:00.fff UTC" (like 2022-04-01 12:44:10.315 UTC)
StampMilli(h, ms) ==
    <<50, 48, 50, 50, 45, 48, 52, 45, 48, 49, 32>> \o Pad2(h)
        \o <<58, 48, 48, 58, 48, 48, 46>> \o Pad3(ms) \o <<32, 85, 84, 67>>

\* a well-formed line with a millisecond timestamp
RecordMilli(h, ms) == StampMilli(h, ms) \o <<44, 117, 44>> \o ColorA \o <<44>> \o PosP \o <<10>>

\* the years the range bounds of the range runs are drawn from
RangeYears == {999, 1000, 2022}

\* args.start and args.end of the range runs, as parse_datetime_arg returns them
RangeArgs ==
    { [year |-> y, month |-> 4, day |-> 1, hour |-> h] : y \in RangeYears, h \in RangeHours }

\* the hours of the events of the range runs: before, at the start, at the end
EventHours == {12, 13, 15}

\* the files of the range runs: a header and one record
RangeFiles ==
    { <<HeaderLine, RecordMilli(h, ms)>> : h \in EventHours, ms \in 0..MaxMilli }
        \cup { <<HeaderLine, Record(h, ColorA, PosP)>> : h \in EventHours }

\* calculate_session_lengths is not running
Week3Idle ==
    /\ pc3 = "idle"
    /\ table = <<>>
    /\ user_ids = <<>>
    /\ user_index = 1
    /\ timestamps_py = <<>>
    /\ ts_index = 1
    /\ current_session_start = 0
    /\ prev_timestamp = 0
    /\ user_sessions = <<>>
    /\ session_lengths = <<>>

----------------------------------------------------------------------------
(* Initial states *)

Init ==
    /\ variant \in {"Week1", "root"}
    /\ entry \in {"main", "analyze_parallel"}
    /\ file \in Files
    /\ \E cfg \in Configs : CHUNK_SIZE = cfg[1] /\ NUM_WORKERS = cfg[2]
    /\ \E hs \in RangeHours, he \in RangeHours :
          IF entry = "main"
          THEN /\ args = <<Dt(hs), Dt(he)>>
               /\ start_time = <<>>
               /\ end_time = <<>>
               /\ pc = "main"
          ELSE /\ args = <<>>
               /\ start_time = Stamp(hs)
               /\ end_time = Stamp(he)
               /\ pc = "pool"
    /\ pool = "none"
    /\ f = 0
    /\ lines_chunk = <<>>
    /\ tasks = <<>>
    /\ t = 1
    /\ color_counter = EmptyCounter
    /\ pos_counter = EmptyCounter
    /\ result = <<>>
    /\ error = ""
    /\ completed = <<>>
    /\ top_colors = <<>>
    /\ top_pos = <<>>
    /\ best = <<>>
    /\ Week3Idle

----------------------------------------------------------------------------
(* The dispatcher: main and analyze_parallel *)

\* an exception leaves analyze_parallel: the with block terminates the pool
Raise(kind) ==
    /\ pc' = "failed"
    /\ error' = kind
    /\ pool' = IF pool = "running" THEN "terminated" ELSE pool

\* main: start_time, end_time = validate_time_range(args.start, args.end)
Validate ==
    /\ pc = "main"
    /\ IF validate_time_range_raises(args[1], args[2])
       THEN /\ Raise("ArgumentTypeError")
            /\ UNCHANGED <<start_time, end_time>>
       ELSE /\ start_time' = validate_time_range(args[1], args[2])[1]
            /\ end_time' = validate_time_range(args[1], args[2])[2]
            /\ pc' = "pool"
            /\ UNCHANGED <<error, pool>>
    /\ UNCHANGED <<week3, params, report, completed, f, lines_chunk, tasks, t, color_counter, pos_counter, result>>

\* with multiprocessing.Pool(processes=NUM_WORKERS) as pool
CreatePool ==
    /\ pc = "pool"
    /\ pool' = "running"
    /\ pc' = "open"
    /\ UNCHANGED <<week3, params, report, completed, start_time, end_time, f, lines_chunk, tasks, t,
                   color_counter, pos_counter, result, error>>

\* with open(filename, 'r', newline='') as f
OpenFile ==
    /\ pc = "open"
    /\ f' = 1
    /\ pc' = "header"
    /\ UNCHANGED <<week3, params, report, completed, start_time, end_time, pool, lines_chunk, tasks, t,
                   color_counter, pos_counter, result, error>>

\* the header skipped only when the first line is the header text
SkipHeader_iflooks ==
    /\ pc = "header"
    /\ IF f > Len(file)
       THEN /\ Raise("StopIteration")
            /\ UNCHANGED f
       ELSE /\ f' = IF file[f] = HeaderLine THEN f + 1 ELSE f
            /\ pc' = "read"
            /\ UNCHANGED <<error, pool>>
    /\ UNCHANGED <<week3, params, report, completed, start_time, end_time, lines_chunk, tasks, t,
                   color_counter, pos_counter, result>>

\* next(f): StopIteration on an empty file
SkipHeader ==
    /\ pc = "header"
    /\ IF f > Len(file)
       THEN /\ Raise("StopIteration")
            /\ UNCHANGED f
       ELSE /\ f' = f + 1
            /\ pc' = "read"
            /\ UNCHANGED <<error, pool>>
    /\ UNCHANGED <<week3, params, report, completed, start_time, end_time, lines_chunk, tasks, t,
                   color_counter, pos_counter, result>>

\* pool.apply_async(analyze_chunk, (lines_chunk, start_time, end_time))
apply_async(chunk) ==
    [chunk |-> chunk, state |-> "queued", color |-> EmptyCounter, pos |-> EmptyCounter]

\* the read loop as it would be with: if len(lines_chunk) > CHUNK_SIZE
ReadLine_gt ==
    /\ pc = "read"
    /\ f <= Len(file)
    /\ f' = f + 1
    /\ LET chunk == Append(lines_chunk, file[f]) IN
       IF Len(chunk) > CHUNK_SIZE
       THEN /\ tasks' = Append(tasks, apply_async(chunk))
            /\ lines_chunk' = <<>>
       ELSE /\ lines_chunk' = chunk
            /\ UNCHANGED tasks
    /\ UNCHANGED <<week3, params, report, completed, pc, start_time, end_time, pool, t, color_counter,
                   pos_counter, result, error>>

\* one iteration of: for line in f
ReadLine ==
    /\ pc = "read"
    /\ f <= Len(file)
    /\ f' = f + 1
    /\ LET chunk == Append(lines_chunk, file[f]) IN
       IF Len(chunk) >= CHUNK_SIZE
       THEN /\ tasks' = Append(tasks, apply_async(chunk))
            /\ lines_chunk' = <<>>
       ELSE /\ lines_chunk' = chunk
            /\ UNCHANGED tasks
    /\ UNCHANGED <<week3, params, report, completed, pc, start_time, end_time, pool, t, color_counter,
                   pos_counter, result, error>>

\* the end of input as it would be without the submit of the leftover lines
Leftover_drop ==
    /\ pc = "read"
    /\ f > Len(file)
    /\ pc' = "merge"
    /\ UNCHANGED <<week3, params, report, completed, start_time, end_time, pool, f, lines_chunk, t,
                   color_counter, pos_counter, result, error, tasks>>

\* end of input: the leftover lines are submitted and the file is closed
Leftover ==
    /\ pc = "read"
    /\ f > Len(file)
    /\ IF lines_chunk # <<>>
       THEN tasks' = Append(tasks, apply_async(lines_chunk))
       ELSE UNCHANGED tasks
    /\ pc' = "merge"
    /\ UNCHANGED <<week3, params, report, completed, start_time, end_time, pool, f, lines_chunk, t,
                   color_counter, pos_counter, result, error>>

\* the merge loop as it would be if it skipped a task that is not ready
MergeTask_nowait ==
    /\ pc = "merge"
    /\ t <= Len(tasks)
    /\ IF tasks[t].state = "error"
       THEN /\ Raise("IndexError")
            /\ UNCHANGED <<t, color_counter, pos_counter>>
       ELSE /\ color_counter' = CounterUpdate(color_counter, tasks[t].color)
            /\ pos_counter' = CounterUpdate(pos_counter, tasks[t].pos)
            /\ t' = t + 1
            /\ UNCHANGED <<pc, error, pool>>
    /\ UNCHANGED <<week3, params, report, completed, start_time, end_time, f, lines_chunk, tasks, result>>

\* the merge loop as it would be if it caught the exception of a failed task
MergeTask_swallow ==
    /\ pc = "merge"
    /\ t <= Len(tasks)
    /\ tasks[t].state \in {"ok", "error"}
    /\ color_counter' = CounterUpdate(color_counter, tasks[t].color)
    /\ pos_counter' = CounterUpdate(pos_counter, tasks[t].pos)
    /\ t' = t + 1
    /\ UNCHANGED <<week3, params, report, completed, pc, error, pool, start_time, end_time, f,
                   lines_chunk, tasks, result>>

\* the merge loop as it would be if it took the results as they complete
MergeTask_unordered ==
    /\ pc = "merge"
    /\ t <= Len(tasks)
    /\ t <= Len(completed)
    /\ IF tasks[completed[t]].state = "error"
       THEN /\ Raise("IndexError")
            /\ UNCHANGED <<t, color_counter, pos_counter>>
       ELSE /\ color_counter' = CounterUpdate(color_counter, tasks[completed[t]].color)
            /\ pos_counter' = CounterUpdate(pos_counter, tasks[completed[t]].pos)
            /\ t' = t + 1
            /\ UNCHANGED <<pc, error, pool>>
    /\ UNCHANGED <<week3, params, report, completed, start_time, end_time, f, lines_chunk, tasks,
                   result>>

\* the merge loop as it would be over reversed(tasks)
MergeTask_reverse ==
    /\ pc = "merge"
    /\ t <= Len(tasks)
    /\ tasks[Len(tasks) + 1 - t].state \in {"ok", "error"}
    /\ IF tasks[Len(tasks) + 1 - t].state = "error"
       THEN /\ Raise("IndexError")
            /\ UNCHANGED <<t, color_counter, pos_counter>>
       ELSE /\ color_counter' = CounterUpdate(color_counter, tasks[Len(tasks) + 1 - t].color)
            /\ pos_counter' = CounterUpdate(pos_counter, tasks[Len(tasks) + 1 - t].pos)
            /\ t' = t + 1
            /\ UNCHANGED <<pc, error, pool>>
    /\ UNCHANGED <<week3, params, report, completed, start_time, end_time, f, lines_chunk, tasks, result>>

\* the merge loop as it would be if it applied each partial result twice
MergeTask_twice ==
    /\ pc = "merge"
    /\ t <= Len(tasks)
    /\ tasks[t].state \in {"ok", "error"}
    /\ IF tasks[t].state = "error"
       THEN /\ Raise("IndexError")
            /\ UNCHANGED <<t, color_counter, pos_counter>>
       ELSE /\ color_counter' = CounterUpdate(CounterUpdate(color_counter, tasks[t].color),
                                              tasks[t].color)
            /\ pos_counter' = CounterUpdate(CounterUpdate(pos_counter, tasks[t].pos),
                                            tasks[t].pos)
            /\ t' = t + 1
            /\ UNCHANGED <<pc, error, pool>>
    /\ UNCHANGED <<week3, params, report, completed, start_time, end_time, f, lines_chunk, tasks, result>>

\* one iteration of: for t in tasks; t.get() waits for the task and re-raises
MergeTask ==
    /\ pc = "merge"
    /\ t <= Len(tasks)
    /\ tasks[t].state \in {"ok", "error"}
    /\ IF tasks[t].state = "error"
       THEN /\ Raise("IndexError")
            /\ UNCHANGED <<t, color_counter, pos_counter>>
       ELSE /\ color_counter' = CounterUpdate(color_counter, tasks[t].color)
            /\ pos_counter' = CounterUpdate(pos_counter, tasks[t].pos)
            /\ t' = t + 1
            /\ UNCHANGED <<pc, error, pool>>
    /\ UNCHANGED <<week3, params, report, completed, start_time, end_time, f, lines_chunk, tasks, result>>

\* the loop is over: the pool is left and the counters are returned
Return ==
    /\ pc = "merge"
    /\ t > Len(tasks)
    /\ pool' = "terminated"
    /\ result' = <<color_counter, pos_counter>>
    /\ pc' = "done"
    /\ UNCHANGED <<week3, params, report, completed, start_time, end_time, f, lines_chunk, tasks, t,
                   color_counter, pos_counter, error>>

\* main after analyze_parallel has returned: the two loops over most_common(10)
Report ==
    /\ pc = "done"
    /\ entry = "main"
    /\ top_colors' = most_common(result[1], TopK)
    /\ top_pos' = most_common(result[2], TopK)
    /\ pc' = IF variant = "Week1" THEN "summary" ELSE "exit"
    /\ UNCHANGED <<week3, params, completed, best, start_time, end_time, pool, f, lines_chunk,
                   tasks, t, color_counter, pos_counter, result, error>>

\* the summary as it would be with a default in place of the index [0]
Summary_default ==
    /\ pc = "summary"
    /\ best' = <<most_common(result[1], 1), most_common(result[2], 1)>>
    /\ pc' = "exit"
    /\ UNCHANGED <<week3, params, completed, top_colors, top_pos, start_time, end_time, pool, f,
                   lines_chunk, tasks, t, color_counter, pos_counter, result, error>>

\* main (Week 1): color_counter.most_common(1)[0] and pos_counter.most_common(1)[0];
\* indexing the empty list raises IndexError
Summary ==
    /\ pc = "summary"
    /\ IF most_common(result[1], 1) = <<>> \/ most_common(result[2], 1) = <<>>
       THEN /\ pc' = "main_failed"
            /\ error' = "IndexError"
            /\ UNCHANGED best
       ELSE /\ best' = <<most_common(result[1], 1)[1], most_common(result[2], 1)[1]>>
            /\ pc' = "exit"
            /\ UNCHANGED error
    /\ UNCHANGED <<week3, params, completed, top_colors, top_pos, start_time, end_time, pool, f,
                   lines_chunk, tasks, t, color_counter, pos_counter, result>>

----------------------------------------------------------------------------
(* The worker processes *)

Running == {i \in DOMAIN tasks : tasks[i].state = "running"}
Queued == {i \in DOMAIN tasks : tasks[i].state = "queued"}

\* an idle worker takes the oldest queued task
WorkerStart ==
    /\ pool = "running"
    /\ Cardinality(Running) < NUM_WORKERS
    /\ Queued # {}
    /\ LET i == CHOOSE j \in Queued : \A k \in Queued : j <= k IN
       tasks' = [tasks EXCEPT ![i].state = "running"]
    /\ UNCHANGED <<week3, params, report, completed, pc, start_time, end_time, pool, f, lines_chunk, t,
                   color_counter, pos_counter, result, error>>

\* a worker as it would be if analyze_chunk added to the global counters itself
WorkerFinish_shared(i) ==
    /\ pool = "running"
    /\ tasks[i].state = "running"
    /\ LET r == ChunkResult(variant, tasks[i].chunk, start_time, end_time) IN
       /\ tasks' = [tasks EXCEPT ![i] = [chunk |-> tasks[i].chunk, state |-> r.status,
                                         color |-> r.color, pos |-> r.pos]]
       /\ color_counter' = CounterUpdate(color_counter, r.color)
       /\ pos_counter' = CounterUpdate(pos_counter, r.pos)
    /\ completed' = Append(completed, i)
    /\ UNCHANGED <<week3, params, report, pc, start_time, end_time, pool, f, lines_chunk, t,
                   result, error>>

\* a worker as it would be if analyze_chunk consumed its list of lines
WorkerFinish_consume(i) ==
    /\ pool = "running"
    /\ tasks[i].state = "running"
    /\ LET r == ChunkResult(variant, tasks[i].chunk, start_time, end_time) IN
       tasks' = [tasks EXCEPT ![i] = [chunk |-> <<>>, state |-> r.status,
                                      color |-> r.color, pos |-> r.pos]]
    /\ completed' = Append(completed, i)
    /\ UNCHANGED <<week3, params, report, pc, start_time, end_time, pool, f, lines_chunk, t,
                   color_counter, pos_counter, result, error>>

\* a worker as it would be if it kept an exception to itself: the task of a
\* failed chunk never becomes ready
WorkerFinish_hang(i) ==
    /\ pool = "running"
    /\ tasks[i].state = "running"
    /\ ChunkResult(variant, tasks[i].chunk, start_time, end_time).status = "ok"
    /\ LET r == ChunkResult(variant, tasks[i].chunk, start_time, end_time) IN
       tasks' = [tasks EXCEPT ![i] = [chunk |-> tasks[i].chunk, state |-> r.status,
                                      color |-> r.color, pos |-> r.pos]]
    /\ completed' = Append(completed, i)
    /\ UNCHANGED <<week3, params, report, pc, start_time, end_time, pool, f, lines_chunk, t,
                   color_counter, pos_counter, result, error>>

\* a worker finishes analyze_chunk on its chunk, with a result or an exception
WorkerFinish(i) ==
    /\ pool = "running"
    /\ tasks[i].state = "running"
    /\ LET r == ChunkResult(variant, tasks[i].chunk, start_time, end_time) IN
       tasks' = [tasks EXCEPT ![i] = [chunk |-> tasks[i].chunk, state |-> r.status,
                                      color |-> r.color, pos |-> r.pos]]
    /\ completed' = Append(completed, i)
    /\ UNCHANGED <<week3, params, report, pc, start_time, end_time, pool, f, lines_chunk, t,
                   color_counter, pos_counter, result, error>>

----------------------------------------------------------------------------

Next ==
    \/ Validate
    \/ CreatePool
    \/ OpenFile
    \/ SkipHeader
    \/ ReadLine
    \/ Leftover
    \/ MergeTask
    \/ Return
    \/ Report
    \/ Summary
    \/ WorkerStart
    \/ \E i \in DOMAIN tasks : WorkerFinish(i)

Spec == Init /\ [][Next]_vars

\* runs of main (Week 1) over one-record files, with range bounds of several years
RangeInit ==
    /\ variant = "Week1"
    /\ entry = "main"
    /\ file \in RangeFiles
    /\ CHUNK_SIZE = 1
    /\ NUM_WORKERS = 1
    /\ args \in RangeArgs \X RangeArgs
    /\ start_time = <<>>
    /\ end_time = <<>>
    /\ pc = "main"
    /\ pool = "none"
    /\ f = 0
    /\ lines_chunk = <<>>
    /\ tasks = <<>>
    /\ t = 1
    /\ color_counter = EmptyCounter
    /\ pos_counter = EmptyCounter
    /\ result = <<>>
    /\ error = ""
    /\ completed = <<>>
    /\ top_colors = <<>>
    /\ top_pos = <<>>
    /\ best = <<>>
    /\ Week3Idle

RangeSpec == RangeInit /\ [][Next]_vars

\* the steps of the main process: main and analyze_parallel
Dispatcher ==
    \/ Validate
    \/ CreatePool
    \/ OpenFile
    \/ SkipHeader
    \/ ReadLine
    \/ Leftover
    \/ MergeTask
    \/ Return
    \/ Report
    \/ Summary

\* the steps of the worker processes of the pool
Workers == WorkerStart \/ \E i \in DOMAIN tasks : WorkerFinish(i)

\* runs of main (Week 1) with one line per chunk over an empty file, a file with
\* a header only and the two files with a two-field line
FairInit ==
    /\ Init
    /\ variant = "Week1"
    /\ entry = "main"
    /\ CHUNK_SIZE = 1
    /\ file \in {<<>>, <<HeaderLine>>, ScenarioShortIn, ScenarioShortOut}

\* the operating system keeps scheduling the main process, and the worker
\* processes of the pool as long as the pool exists
FairSpec == FairInit /\ [][Next]_vars /\ WF_vars(Dispatcher) /\ WF_vars(Workers)

----------------------------------------------------------------------------
(* Week 3/processing.py: calculate_session_lengths. Timestamps are in minutes, *)
(* lengths in seconds.                                                        *)

\* INACTIVITY_THRESHOLD = timedelta(minutes=15)
INACTIVITY_THRESHOLD == 15

\* the encoded user ids and the timestamps (minutes) of the tables
Users == {1, 2}
Minutes == {0, 15, 16, 31, 32}

Tables == SeqsUpTo([user : Users, ts : Minutes], MaxRows)

\* pc.unique: the distinct values in the order of their first appearance
Unique(seq) ==
    LET firsts == { i \in DOMAIN seq : \A j \in 1..(i - 1) : seq[j] # seq[i] }
    IN  [ r \in 1..Cardinality(firsts) |->
            seq[CHOOSE i \in firsts : Cardinality({ j \in firsts : j < i }) = r - 1] ]

\* pc.array_sort: ascending
array_sort(seq) ==
    LET Rank(i) == 1 + Cardinality({ j \in DOMAIN seq : seq[j] < seq[i] })
                     + Cardinality({ j \in DOMAIN seq : j < i /\ seq[j] = seq[i] })
    IN  [ r \in DOMAIN seq |-> seq[CHOOSE i \in DOMAIN seq : Rank(i) = r] ]

\* table.filter(pc.equal(table['user_id_encoded'], user_id))['timestamp']
UserTimestamps(user_id) ==
    LET user_table == SelectSeq(table, LAMBDA row : row.user = user_id)
    IN  [ i \in DOMAIN user_table |-> user_table[i].ts ]

\* timedelta.total_seconds() of a difference of minutes
total_seconds(minutes) == minutes * 60

\* place_analyzer.py is not running
Week1Idle ==
    /\ variant = "Week1"
    /\ entry = "main"
    /\ args = <<>>
    /\ file = <<>>
    /\ CHUNK_SIZE = 1
    /\ NUM_WORKERS = 1
    /\ pc = "idle"
    /\ start_time = <<>>
    /\ end_time = <<>>
    /\ pool = "none"
    /\ f = 0
    /\ lines_chunk = <<>>
    /\ tasks = <<>>
    /\ t = 1
    /\ color_counter = EmptyCounter
    /\ pos_counter = EmptyCounter
    /\ result = <<>>
    /\ error = ""
    /\ completed = <<>>
    /\ top_colors = <<>>
    /\ top_pos = <<>>
    /\ best = <<>>

\* calculate_session_lengths(table) is entered
SessionInit ==
    /\ Week1Idle
    /\ table \in Tables
    /\ user_ids = Unique([i \in DOMAIN table |-> table[i].user])
    /\ session_lengths = <<>>
    /\ user_index = 1
    /\ pc3 = "user"
    /\ timestamps_py = <<>>
    /\ ts_index = 1
    /\ current_session_start = 0
    /\ prev_timestamp = 0
    /\ user_sessions = <<>>

\* for user_id in user_ids: a user with at most one row is skipped, else the
\* timestamps are sorted and the first session starts at the first of them
ForUser ==
    /\ pc3 = "user"
    /\ user_index <= Len(user_ids)
    /\ LET user_table == UserTimestamps(user_ids[user_index]) IN
       IF Len(user_table) <= 1
       THEN /\ user_index' = user_index + 1
            /\ UNCHANGED <<pc3, timestamps_py, ts_index, current_session_start,
                           prev_timestamp, user_sessions>>
       ELSE /\ timestamps_py' = array_sort(user_table)
            /\ current_session_start' = array_sort(user_table)[1]
            /\ prev_timestamp' = array_sort(user_table)[1]
            /\ user_sessions' = <<>>
            /\ ts_index' = 2
            /\ pc3' = "scan"
            /\ UNCHANGED user_index
    /\ UNCHANGED <<week1, table, user_ids, session_lengths>>

\* the inner loop as it would be with: if time_diff >= INACTIVITY_THRESHOLD
ForTimestamp_ge ==
    /\ pc3 = "scan"
    /\ ts_index <= Len(timestamps_py)
    /\ LET timestamp == timestamps_py[ts_index]
           time_diff == timestamp - prev_timestamp
           session_length == total_seconds(prev_timestamp - current_session_start)
       IN  /\ IF time_diff >= INACTIVITY_THRESHOLD
              THEN /\ user_sessions' = IF session_length > 0
                                        THEN Append(user_sessions, session_length)
                                        ELSE user_sessions
                   /\ current_session_start' = timestamp
              ELSE UNCHANGED <<user_sessions, current_session_start>>
           /\ prev_timestamp' = timestamp
    /\ ts_index' = ts_index + 1
    /\ UNCHANGED <<week1, pc3, table, user_ids, user_index, timestamps_py, session_lengths>>

\* one iteration of: for timestamp in timestamps_py[1:]
ForTimestamp ==
    /\ pc3 = "scan"
    /\ ts_index <= Len(timestamps_py)
    /\ LET timestamp == timestamps_py[ts_index]
           time_diff == timestamp - prev_timestamp
           session_length == total_seconds(prev_timestamp - current_session_start)
       IN  /\ IF time_diff > INACTIVITY_THRESHOLD
              THEN /\ user_sessions' = IF session_length > 0
                                        THEN Append(user_sessions, session_length)
                                        ELSE user_sessions
                   /\ current_session_start' = timestamp
              ELSE UNCHANGED <<user_sessions, current_session_start>>
           /\ prev_timestamp' = timestamp
    /\ ts_index' = ts_index + 1
    /\ UNCHANGED <<week1, pc3, table, user_ids, user_index, timestamps_py, session_lengths>>

\* after the inner loop: the final session, then session_lengths.extend(user_sessions)
FinalSession ==
    /\ pc3 = "scan"
    /\ ts_index > Len(timestamps_py)
    /\ LET final_session_length == total_seconds(prev_timestamp - current_session_start)
           sessions == IF final_session_length > 0
                       THEN Append(user_sessions, final_session_length)
                       ELSE user_sessions
       IN  /\ user_sessions' = sessions
           /\ session_lengths' = session_lengths \o sessions
    /\ user_index' = user_index + 1
    /\ pc3' = "user"
    /\ UNCHANGED <<week1, table, user_ids, timestamps_py, ts_index, current_session_start,
                   prev_timestamp>>

\* return session_lengths
ReturnSessionLengths ==
    /\ pc3 = "user"
    /\ user_index > Len(user_ids)
    /\ pc3' = "returned"
    /\ UNCHANGED <<week1, table, user_ids, user_index, timestamps_py, ts_index,
                   current_session_start, prev_timestamp, user_sessions, session_lengths>>

SessionNext ==
    \/ ForUser
    \/ ForTimestamp
    \/ FinalSession
    \/ ReturnSessionLengths

SessionSpec == SessionInit /\ [][SessionNext]_vars

----------------------------------------------------------------------------
(* Vocabulary of the properties *)

\* the lines after the header
Body == IF file = <<>> THEN <<>> ELSE Tail(file)

\* a counter as a mapping, whatever its insertion order
TableOf(c) == [k \in Keys(c) |-> Count(c, k)]

\* start <= timestamp <= end on the first field of the line, as strings
InRange(line, s, e) ==
    /\ Len(CsvRow(line)) >= 1
    /\ ~StrLess(CsvRow(line)[1], s)
    /\ ~StrLess(e, CsvRow(line)[1])

WellFormed(line) == Len(CsvRow(line)) >= 4

\* the number of in-range records of lines whose field idx equals k
RefCount(lines, s, e, idx, k) ==
    Cardinality({ i \in DOMAIN lines :
                    /\ WellFormed(lines[i])
                    /\ InRange(lines[i], s, e)
                    /\ CsvRow(lines[i])[idx] = k })

\* the values field idx takes in lines
FieldValues(lines, idx) ==
    { CsvRow(lines[i])[idx] : i \in { j \in DOMAIN lines : WellFormed(lines[j]) } }

\* counter c is exactly the count of field idx over the in-range records of lines
CountsField(c, lines, s, e, idx) ==
    \A k \in Keys(c) \cup FieldValues(lines, idx) :
        Count(c, k) = RefCount(lines, s, e, idx, k)

\* the sum over all tasks of partial[k]
RECURSIVE SumPartials(_, _, _)
SumPartials(ts, which, k) ==
    IF ts = <<>> THEN 0
    ELSE (IF which = "color" THEN Count(Head(ts).color, k) ELSE Count(Head(ts).pos, k))
            + SumPartials(Tail(ts), which, k)

\* the lines cut into chunks of at most c lines
RECURSIVE SplitChunks(_, _)
SplitChunks(lines, c) ==
    IF lines = <<>> THEN <<>>
    ELSE IF Len(lines) <= c THEN <<lines>>
    ELSE <<SubSeq(lines, 1, c)>> \o SplitChunks(SubSeq(lines, c + 1, Len(lines)), c)

\* one process computing and merging the chunks one after the other
RECURSIVE FoldChunks(_, _, _, _, _)
FoldChunks(v, chunks, s, e, acc) ==
    IF chunks = <<>> THEN acc
    ELSE LET r == ChunkResult(v, Head(chunks), s, e) IN
         IF acc.status = "error" \/ r.status = "error" THEN IndexError
         ELSE FoldChunks(v, Tail(chunks), s, e,
                         [status |-> "ok",
                          color |-> CounterUpdate(acc.color, r.color),
                          pos |-> CounterUpdate(acc.pos, r.pos)])

\* the outcome of the aggregation with chunk size c, computed without a pool
Sequential(v, lines, s, e, c) ==
    FoldChunks(v, SplitChunks(lines, c), s, e,
               [status |-> "ok", color |-> EmptyCounter, pos |-> EmptyCounter])

\* the chunk sizes a run is compared with: 1, file length, the configured ones
OtherChunkSizes == (1..MaxChunk) \cup {5} \cup ({Len(Body)} \ {0})

----------------------------------------------------------------------------
(* C1: when analyze_parallel (Week 1) returns, each merged table maps every *)
(* key to the number of in-range records of the whole file with that category *)
(* (resp. position), which is also the sum over the chunks of partial[k].   *)
C1_MergedIsCountOfFile ==
    (variant = "Week1" /\ pc = "done") =>
        /\ CountsField(result[1], Body, start_time, end_time, 3)
        /\ CountsField(result[2], Body, start_time, end_time, 4)
        /\ \A k \in Keys(result[1]) \cup FieldValues(Body, 3) :
              Count(result[1], k) = SumPartials(tasks, "color", k)
        /\ \A k \in Keys(result[2]) \cup FieldValues(Body, 4) :
              Count(result[2], k) = SumPartials(tasks, "pos", k)

\* a run over several chunks in which one category was counted in two of them
C1_Witness ==
    /\ variant = "Week1"
    /\ pc = "done"
    /\ Len(tasks) >= 2
    /\ \E k \in Keys(result[1]) :
          /\ Count(result[1], k) >= 2
          /\ \E i, j \in DOMAIN tasks : i # j /\ Count(tasks[i].color, k) >= 1
                                              /\ Count(tasks[j].color, k) >= 1

(* C2: merge invariance. The outcome of a run (Week 1) is the outcome of the *)
(* aggregation with any other chunk size (1, the file length, the others)   *)
(* and one process: same tables on success, failure in both otherwise.      *)
C2_MergeInvariance ==
    (variant = "Week1" /\ pc \in {"done", "failed"} /\ error \in {"", "IndexError"}) =>
        \A c \in OtherChunkSizes :
            LET o == Sequential(variant, Body, start_time, end_time, c) IN
            IF pc = "done"
            THEN /\ o.status = "ok"
                 /\ TableOf(result[1]) = TableOf(o.color)
                 /\ TableOf(result[2]) = TableOf(o.pos)
            ELSE o.status = "error"

\* the five-record file with chunk size 1 and 2 workers, against chunk size 5
C2_Witness ==
    /\ variant = "Week1"
    /\ pc = "done"
    /\ file = Scenario5
    /\ CHUNK_SIZE = 1
    /\ NUM_WORKERS = 2
    /\ Len(tasks) = 5
    /\ result[1] # EmptyCounter
    /\ TableOf(result[1]) = TableOf(Sequential(variant, Body, start_time, end_time, 5).color)

(* C3: filter correctness. The partial table analyze_chunk (Week 1) has just *)
(* returned counts exactly the lines of its chunk with start <= timestamp <= end as  *)
(* strings, both ends included; on the five-record scenario with the range  *)
(* [13:00, 15:00] the category table is {A: 2, B: 1}.                       *)
C3_FilterCorrectness ==
    /\ \A i \in (IF completed = <<>> THEN {} ELSE {completed[Len(completed)]}) :
          (variant = "Week1" /\ tasks[i].state = "ok") =>
              /\ CountsField(tasks[i].color, tasks[i].chunk, start_time, end_time, 3)
              /\ CountsField(tasks[i].pos, tasks[i].chunk, start_time, end_time, 4)
    /\ (variant = "Week1" /\ pc = "done" /\ file = Scenario5
            /\ start_time = Stamp(13) /\ end_time = Stamp(15)) =>
          TableOf(result[1]) = (ColorA :> 2 @@ ColorB :> 1)

\* the scenario has run: the records at 13:00 and 15:00 are counted, 12:00 and 16:00 not
C3_Witness ==
    /\ variant = "Week1"
    /\ pc = "done"
    /\ file = Scenario5
    /\ start_time = Stamp(13)
    /\ end_time = Stamp(15)
    /\ Total(result[1]) = 3
    /\ Count(result[2], PosQ) = 2

\* the number of in-range, well-formed records of lines
NumInRange(lines, s, e) ==
    Cardinality({ i \in DOMAIN lines : WellFormed(lines[i]) /\ InRange(lines[i], s, e) })

\* the task a worker finished last, if any
LastCompleted == IF completed = <<>> THEN {} ELSE {completed[Len(completed)]}

(* C4: count conservation. In the partial tables a chunk computation has    *)
(* returned and in the returned tables, the category counts and the position *)
(* counts have the same sum: the number of in-range, well-formed records.   *)
C4_CountConservation ==
    /\ \A i \in LastCompleted :
          tasks[i].state = "ok" =>
              /\ Total(tasks[i].color) = Total(tasks[i].pos)
              /\ Total(tasks[i].color) = NumInRange(tasks[i].chunk, start_time, end_time)
    /\ pc = "done" =>
          /\ Total(result[1]) = Total(result[2])
          /\ Total(result[1]) = NumInRange(Body, start_time, end_time)

\* the partial tables merged in the order given
RECURSIVE MergeInOrder(_, _, _)
MergeInOrder(order, which, acc) ==
    IF order = <<>> THEN acc
    ELSE MergeInOrder(Tail(order), which,
                      CounterUpdate(acc, IF which = "color" THEN tasks[Head(order)].color
                                         ELSE tasks[Head(order)].pos))

(* C5: completion-order independence. Whatever the order in which the workers *)
(* finished, a returning run has waited for every task and returns the tables *)
(* that depend on the file, the range and the chunk size alone; merging the   *)
(* partial tables in completion order gives the same tables.                  *)
C5_CompletionOrderIndependence ==
    pc = "done" =>
        LET o == Sequential(variant, Body, start_time, end_time, CHUNK_SIZE) IN
        /\ Len(completed) = Len(tasks)
        /\ TableOf(result[1]) = TableOf(o.color)
        /\ TableOf(result[2]) = TableOf(o.pos)
        /\ TableOf(result[1]) = TableOf(MergeInOrder(completed, "color", EmptyCounter))
        /\ TableOf(result[2]) = TableOf(MergeInOrder(completed, "pos", EmptyCounter))

\* a run has returned in which a later chunk was finished before an earlier one
C5_Witness ==
    /\ pc = "done"
    /\ \E i, j \in DOMAIN completed :
          /\ i < j
          /\ completed[i] > completed[j]
          /\ tasks[completed[i]].color # EmptyCounter
          /\ tasks[completed[j]].color # EmptyCounter

(* C6: failure semantics. Once the computation of a chunk has failed the run *)
(* never returns tables: a run that returns has merged only successful tasks, *)
(* and a failed run returns nothing, whatever was merged before.             *)
C6_FailureSemantics ==
    /\ (\E i \in DOMAIN tasks : tasks[i].state = "error") => (pc # "done" /\ result = <<>>)
    /\ pc = "done" => \A i \in DOMAIN tasks : tasks[i].state = "ok"
    /\ pc = "failed" => result = <<>>

\* a run has failed on a chunk after the partial result of another was merged
C6_Witness ==
    /\ pc = "failed"
    /\ error = "IndexError"
    /\ t >= 2
    /\ color_counter # EmptyCounter
    /\ result = <<>>

(* C7: malformed-record policy. A body whose lines all have a timestamp field, *)
(* some with fewer than 4 fields, never makes a chunk computation or the run  *)
(* fail.                                                                      *)
C7_ShortLineNeverFails ==
    (\A i \in DOMAIN Body : Len(CsvRow(Body[i])) >= 1) =>
        /\ ~(pc = "failed" /\ error = "IndexError")
        /\ \A i \in DOMAIN tasks : tasks[i].state # "error"

\* the lines of all submitted chunks, in submission order
RECURSIVE Submitted(_)
Submitted(ts) == IF ts = <<>> THEN <<>> ELSE Head(ts).chunk \o Submitted(Tail(ts))

(* C8: header handling. The reader discards exactly the first line, whatever  *)
(* its content: while reading, the chunks and the accumulator hold the lines   *)
(* read after it, and after the read loop the chunks hold all lines but it.   *)
(* On an empty file the run fails at the header (StopIteration from next(f)), *)
(* no chunk is dispatched and nothing is returned.                            *)
C8_HeaderHandling ==
    /\ f <= 1 => (tasks = <<>> /\ lines_chunk = <<>>)
    /\ (f >= 2 /\ pc = "read") => Submitted(tasks) \o lines_chunk = SubSeq(file, 2, f - 1)
    /\ (f >= 2 /\ pc # "read") => Submitted(tasks) = Tail(file)
    /\ file = <<>> =>
          /\ pc \in {"main", "pool", "open", "header", "failed"}
          /\ tasks = <<>>
          /\ result = <<>>
          /\ (pc = "failed" /\ f > 0) => error = "StopIteration"

\* a first line that looks like a record of the range was discarded, not counted
C8_Witness ==
    /\ pc = "done"
    /\ file # <<>>
    /\ file[1] = RecordHeader
    /\ Len(file) = 2
    /\ StrLE(start_time, Stamp(14)) /\ StrLE(Stamp(14), end_time)
    /\ Submitted(tasks) = Tail(file)
    /\ Count(result[1], ColorA) = RefCount(Body, start_time, end_time, 3, ColorA)

(* C9: the engine entry point rejects an invalid range: analyze_parallel     *)
(* called with start >= end returns no tables.                                *)
C9_EngineRejectsInvalidRange ==
    (entry = "analyze_parallel" /\ ~StrLess(start_time, end_time)) =>
        (pc # "done" /\ result = <<>>)

\* a datetime as a number of hours, increasing with time
InstantOf(d) == ((d.year * 12 + d.month) * 31 + d.day) * 24 + d.hour

(* C10: range validation precedes all work. validate_time_range raises iff    *)
(* end <= start, equal bounds included, and in a run of main with such a range *)
(* no pool is created, the file is not opened and no chunk is dispatched.     *)
C10_RangeValidationFirst ==
    entry = "main" =>
        /\ pc # "main" =>
              ((error = "ArgumentTypeError") <=> (InstantOf(args[2]) <= InstantOf(args[1])))
        /\ InstantOf(args[2]) <= InstantOf(args[1]) =>
              /\ pc \in {"main", "failed"}
              /\ pool = "none"
              /\ f = 0
              /\ tasks = <<>>
              /\ result = <<>>

\* main was given equal bounds and has failed before any work
C10_Witness ==
    /\ entry = "main"
    /\ pc = "failed"
    /\ error = "ArgumentTypeError"
    /\ args[1] = args[2]
    /\ pool = "none"
    /\ f = 0

----------------------------------------------------------------------------
(* The reporter *)

\* main has printed the two rankings
Reported == pc \in {"summary", "exit", "main_failed"}

\* the keys of a ranking
TopKeys(top) == { top[i].key : i \in DOMAIN top }

\* top is a ranking of table c: pairs of c, each once, counts non-increasing,
\* and no entry of c left out has a larger count than an entry of top
IsTopOf(top, c) ==
    /\ \A i \in DOMAIN top : top[i].key \in Keys(c) /\ top[i].n = Count(c, top[i].key)
    /\ \A i, j \in DOMAIN top : i < j => top[i].key # top[j].key /\ top[i].n >= top[j].n
    /\ \A k \in Keys(c) \ TopKeys(top) : \A i \in DOMAIN top : Count(c, k) <= top[i].n

(* C11: Top-K ordering. For every returned table and every K >= 1,           *)
(* most_common(K) gives pairs of the table with non-increasing counts, and no *)
(* entry left out has a count greater than one returned; so do the rankings   *)
(* main prints.                                                               *)
C11_TopKOrdering ==
    result # <<>> =>
        /\ \A K \in 1..MaxK :
              /\ IsTopOf(most_common(result[1], K), result[1])
              /\ IsTopOf(most_common(result[2], K), result[2])
        /\ Reported => (IsTopOf(top_colors, result[1]) /\ IsTopOf(top_pos, result[2]))

\* three categories were counted: the top 2 leaves one out, main has printed all three
C11_Witness ==
    /\ pc = "exit"
    /\ file = ScenarioTie
    /\ Len(result[1]) = 3
    /\ top_colors = << [key |-> ColorA, n |-> 2], [key |-> ColorB, n |-> 1],
                       [key |-> ColorC, n |-> 1] >>
    /\ most_common(result[1], 2) = << [key |-> ColorA, n |-> 2], [key |-> ColorB, n |-> 1] >>

\* the first body line whose field idx is k; past the end if there is none
FirstInFile(idx, k) ==
    LET at == { i \in DOMAIN Body : WellFormed(Body[i]) /\ CsvRow(Body[i])[idx] = k }
    IN  IF at = {} THEN Len(Body) + 1 ELSE CHOOSE i \in at : \A j \in at : i <= j

\* the first body line counted for k: in the range and with field idx equal to k
FirstCounted(idx, k) ==
    LET at == { i \in DOMAIN Body : /\ WellFormed(Body[i])
                                    /\ InRange(Body[i], start_time, end_time)
                                    /\ CsvRow(Body[i])[idx] = k }
    IN  IF at = {} THEN Len(Body) + 1 ELSE CHOOSE i \in at : \A j \in at : i <= j

\* in ranking top of table c, entries of equal count are ordered, and chosen, by First
TiesBy(top, c, First(_)) ==
    /\ \A i, j \in DOMAIN top :
          (i < j /\ top[i].n = top[j].n) => First(top[i].key) < First(top[j].key)
    /\ \A k \in Keys(c) \ TopKeys(top) : \A i \in DOMAIN top :
          Count(c, k) = top[i].n => First(top[i].key) < First(k)

(* C12 as stated: among entries of equal count the order, and the choice of   *)
(* the tied entries that make the top K, is by earliest first occurrence of   *)
(* the value in the scan order of the file.                                   *)
C12_TiesByFirstInFile ==
    result # <<>> =>
        \A K \in 1..MaxK :
            /\ TiesBy(most_common(result[1], K), result[1], LAMBDA k : FirstInFile(3, k))
            /\ TiesBy(most_common(result[2], K), result[2], LAMBDA k : FirstInFile(4, k))

(* C12 amended: among entries of equal count the order, and the choice of the *)
(* tied entries that make the top K, is by earliest first occurrence of the   *)
(* value among the counted records (timestamp in the range), in the scan order *)
(* of the file, for every chunk size, worker count and completion order.      *)
C12_TiesByFirstCounted ==
    result # <<>> =>
        /\ \A K \in 1..MaxK :
              /\ TiesBy(most_common(result[1], K), result[1], LAMBDA k : FirstCounted(3, k))
              /\ TiesBy(most_common(result[2], K), result[2], LAMBDA k : FirstCounted(4, k))
        /\ Reported =>
              /\ TiesBy(top_colors, result[1], LAMBDA k : FirstCounted(3, k))
              /\ TiesBy(top_pos, result[2], LAMBDA k : FirstCounted(4, k))

\* B occurs first in the file, outside the range; A is counted first and ranked
\* first of the tie, though the chunk counting B finished before the one counting A
C12_Witness ==
    /\ pc = "exit"
    /\ file = ScenarioLateFirst
    /\ CHUNK_SIZE = 1
    /\ \E i, j \in DOMAIN completed : i < j /\ completed[i] = 3 /\ completed[j] = 2
    /\ top_colors = << [key |-> ColorA, n |-> 1], [key |-> ColorB, n |-> 1] >>
    /\ FirstInFile(3, ColorB) < FirstInFile(3, ColorA)

(* C13: Top-K on a small table. most_common(K) on a table of fewer than K     *)
(* entries gives all its entries, on an empty table the empty sequence; the   *)
(* printing loops of main end without an exception on such tables.            *)
C13_TopKSmallTable ==
    result # <<>> =>
        /\ \A K \in (1..MaxK) \cup {TopK} : \A c \in {result[1], result[2]} :
              /\ Len(most_common(c, K)) = (IF K < Len(c) THEN K ELSE Len(c))
              /\ Len(c) < K => TopKeys(most_common(c, K)) = Keys(c)
              /\ c = EmptyCounter => most_common(c, K) = <<>>
        /\ pc \in {"summary", "exit"} =>
              /\ error = ""
              /\ Len(result[1]) < TopK => TopKeys(top_colors) = Keys(result[1])
              /\ Len(result[2]) < TopK => TopKeys(top_pos) = Keys(result[2])

\* main has printed the rankings of two empty tables and goes on
C13_Witness ==
    /\ pc = "summary"
    /\ result = <<EmptyCounter, EmptyCounter>>
    /\ top_colors = <<>>
    /\ top_pos = <<>>
    /\ error = ""

(* C14: the single most frequent value of an empty table. After a run whose  *)
(* range matched no record, the summary lines of main (Week 1) raise           *)
(* (IndexError from most_common(1)[0]) and give no value; a summary is given  *)
(* only for non-empty tables, and is their first-ranked entry.                 *)
C14_EmptyMaxRaises ==
    variant = "Week1" =>
        /\ (entry = "main" /\ result # <<>> /\ result[1] = EmptyCounter) =>
              (best = <<>> /\ pc \in {"done", "summary", "main_failed"})
        /\ pc = "main_failed" =>
              (error = "IndexError" /\ best = <<>> /\ result[1] = EmptyCounter)
        /\ pc = "exit" =>
              /\ result[1] # EmptyCounter
              /\ best = <<SortedByCount(result[1])[1], SortedByCount(result[2])[1]>>

\* main has failed at the summary of two empty tables it has printed
C14_Witness ==
    /\ variant = "Week1"
    /\ pc = "main_failed"
    /\ error = "IndexError"
    /\ result = <<EmptyCounter, EmptyCounter>>
    /\ Body # <<>>
    /\ best = <<>>

\* every body line has a timestamp field, and no timestamp is in the range
NoneInRange ==
    \A i \in DOMAIN Body :
        Len(CsvRow(Body[i])) >= 1 /\ ~InRange(Body[i], start_time, end_time)

C16_Determinism ==
    result # <<>> =>
        LET o == Sequential(variant, Body, start_time, end_time, CHUNK_SIZE) IN
        /\ result = <<o.color, o.pos>>
        /\ Reported =>
              /\ top_colors = most_common(o.color, TopK)
              /\ top_pos = most_common(o.pos, TopK)
        /\ (pc = "exit" /\ variant = "Week1") =>
              best = <<most_common(o.color, 1)[1], most_common(o.pos, 1)[1]>>

\* main has printed the ranking of a run in which the chunk with the second
\* category was finished before the chunk with the first
C16_Witness ==
    /\ pc = "exit"
    /\ variant = "Week1"
    /\ file = ScenarioShortOut
    /\ CHUNK_SIZE = 1
    /\ \E i, j \in DOMAIN completed : i < j /\ completed[i] = 3 /\ completed[j] = 1
    /\ top_colors = << [key |-> ColorA, n |-> 1], [key |-> ColorB, n |-> 1] >>

(* C17: backpressure. The chunks read and submitted but not yet finished are  *)
(* at most a small multiple of the worker count (here two per worker),         *)
(* whatever the length of the file; the dispatch loop would have to wait for   *)
(* this to hold.                                                               *)
C17_Backpressure ==
    Cardinality(Queued) + Cardinality(Running) <= 2 * NUM_WORKERS

\* the chunk of the file body that has place i in a split into chunks of CHUNK_SIZE
ChunkAt(i) ==
    SubSeq(Body, (i - 1) * CHUNK_SIZE + 1,
           IF i * CHUNK_SIZE < Len(Body) THEN i * CHUNK_SIZE ELSE Len(Body))

\* the read loop is over: the header was read and the reader is past the last line
ReadOver == f >= 2 /\ pc # "read"

(* C18: chunk partition. The i-th submitted chunk is the i-th slice of the    *)
(* file body, so chunks are submitted in emission order and share no line;     *)
(* while reading, the chunks and the accumulator are the lines read so far,    *)
(* and after the read loop the chunks in submission order are the whole body.  *)
C18_ChunkPartition ==
    /\ \A i \in DOMAIN tasks : tasks[i].chunk = ChunkAt(i)
    /\ (f >= 2 /\ pc = "read") =>
          Len(Submitted(tasks)) + Len(lines_chunk) = f - 2
    /\ ReadOver =>
          /\ Submitted(tasks) = Body
          /\ \A k \in DOMAIN Body :
                Cardinality({ i \in DOMAIN tasks :
                                (i - 1) * CHUNK_SIZE < k /\ k <= i * CHUNK_SIZE }) = 1

\* five body lines were submitted as chunks of two, two and one
C18_Witness ==
    /\ pc = "done"
    /\ file = Scenario5
    /\ CHUNK_SIZE = 2
    /\ Len(tasks) = 3
    /\ Len(tasks[3].chunk) = 1
    /\ tasks[3].chunk = <<Body[5]>>

(* C19: chunk shape. Between iterations of the read loop the accumulator      *)
(* holds fewer than CHUNK_SIZE lines (it is submitted and reset on reaching    *)
(* CHUNK_SIZE); every submitted chunk has from 1 to CHUNK_SIZE lines, every    *)
(* chunk but the last one exactly CHUNK_SIZE; the chunks submitted inside the  *)
(* loop are full; after the loop there is a partial last chunk exactly when    *)
(* the body length is not a multiple of CHUNK_SIZE, and no empty chunk.        *)
C19_ChunkShape ==
    /\ Len(lines_chunk) < CHUNK_SIZE
    /\ \A i \in DOMAIN tasks :
          /\ Len(tasks[i].chunk) >= 1
          /\ Len(tasks[i].chunk) <= CHUNK_SIZE
          /\ i < Len(tasks) => Len(tasks[i].chunk) = CHUNK_SIZE
    /\ pc = "read" => \A i \in DOMAIN tasks : Len(tasks[i].chunk) = CHUNK_SIZE
    /\ ReadOver =>
          /\ Len(tasks) = (Len(Body) + CHUNK_SIZE - 1) \div CHUNK_SIZE
          /\ (lines_chunk # <<>>) = (Len(Body) % CHUNK_SIZE # 0)
          /\ (tasks # <<>> /\ Len(tasks[Len(tasks)].chunk) < CHUNK_SIZE)
                = (lines_chunk # <<>>)
          /\ lines_chunk # <<>> => tasks[Len(tasks)].chunk = lines_chunk

\* a body of four lines was submitted as two full chunks and no trailing chunk
C19_Witness ==
    /\ pc = "done"
    /\ file = ScenarioTie
    /\ CHUNK_SIZE = 2
    /\ Len(tasks) = 2
    /\ lines_chunk = <<>>
    /\ \A i \in DOMAIN tasks : Len(tasks[i].chunk) = 2

(* C20: bounded parallelism. The worker count is cpu_count - 1 and 1 on one   *)
(* or two CPUs, so at least 1; and no more than NUM_WORKERS chunk computations *)
(* are running at the same time.                                               *)
C20_BoundedParallelism ==
    /\ \A c \in 1..MaxCpu :
          /\ NumWorkersFor(c) >= 1
          /\ NumWorkersFor(c) = IF c = 1 THEN 1 ELSE c - 1
    /\ NUM_WORKERS >= 1
    /\ Cardinality(Running) <= NUM_WORKERS

\* both of two workers are computing while a further chunk waits in the queue
C20_Witness ==
    /\ NUM_WORKERS = 2
    /\ Cardinality(Running) = 2
    /\ Queued # {}
    /\ pool = "running"

\* how many times a chunk computation of task i has been finished
Times(i) == Cardinality({ k \in DOMAIN completed : completed[k] = i })

\* the partial tables of the tasks 1 .. t-1, each applied once to an empty table
MergedSoFar(which) == MergeInOrder([k \in 1..(t - 1) |-> k], which, EmptyCounter)

(* C21: exactly-once processing. Every task is finished by a worker once if   *)
(* it has an outcome and not at all otherwise; while merging, the accumulators *)
(* hold the partial tables of the tasks before t, each applied once; a run     *)
(* that has returned has computed every chunk once, merged every partial table *)
(* once and returned the tables so obtained.                                   *)
C21_ExactlyOnce ==
    /\ \A i \in DOMAIN tasks :
          Times(i) = IF tasks[i].state \in {"ok", "error"} THEN 1 ELSE 0
    /\ pc = "merge" =>
          /\ color_counter = MergedSoFar("color")
          /\ pos_counter = MergedSoFar("pos")
    /\ result # <<>> =>
          /\ t = Len(tasks) + 1
          /\ \A i \in DOMAIN tasks : tasks[i].state = "ok" /\ Times(i) = 1
          /\ result = <<MergedSoFar("color"), MergedSoFar("pos")>>

\* a run over three chunks with counted records has returned
C21_Witness ==
    /\ pc = "done"
    /\ Len(tasks) = 3
    /\ t = 4
    /\ Len(completed) = 3
    /\ Total(result[1]) >= 2
    /\ \A i \in DOMAIN tasks : tasks[i].state = "ok"

\* the aggregation has ended: analyze_parallel has returned or the run has failed
RunEnded == result # <<>> \/ pc = "failed"

(* C22: termination. Under fair scheduling of the main process and of the     *)
(* workers every run ends, by returning the tables or by failing; the two      *)
(* exclude each other, and a run that has returned has no task pending and has *)
(* merged every task.                                                          *)
C22_Termination ==
    /\ <>RunEnded
    /\ [](~(result # <<>> /\ pc = "failed"))
    /\ [](result # <<>> =>
            /\ t > Len(tasks)
            /\ \A i \in DOMAIN tasks : tasks[i].state \notin {"queued", "running"})

\* a run over three chunks with a single worker has returned
C22_Witness ==
    /\ result # <<>>
    /\ Len(tasks) = 3
    /\ NUM_WORKERS = 1
    /\ pool = "terminated"

(* C25: single-owner merge. The two accumulators change only in a step of    *)
(* the merge loop of the main process, which applies the partial tables of     *)
(* task t, and of no other task, to both of them and moves on to the next      *)
(* task; a step of a worker leaves them alone; and what is returned is the     *)
(* pair of accumulators after the last such step.                              *)
C25_SingleOwnerMerge ==
    [][ /\ (color_counter' # color_counter \/ pos_counter' # pos_counter \/ t' # t) =>
              /\ pc = "merge" /\ pc' = "merge"
              /\ tasks[t].state = "ok"
              /\ t' = t + 1
              /\ color_counter' = CounterUpdate(color_counter, tasks[t].color)
              /\ pos_counter' = CounterUpdate(pos_counter, tasks[t].pos)
              /\ tasks' = tasks
        /\ tasks' # tasks => (color_counter' = color_counter /\ pos_counter' = pos_counter)
        /\ result' # result =>
              /\ result' = <<color_counter, pos_counter>>
              /\ color_counter' = color_counter /\ pos_counter' = pos_counter
              /\ t > Len(tasks)
      ]_vars

\* the main process has merged the first partial table while a worker is computing
C25_Witness ==
    /\ pc = "merge"
    /\ t >= 2
    /\ color_counter # EmptyCounter
    /\ pos_counter # EmptyCounter
    /\ Running # {}

(* C26: chunk processor isolation. A step never changes the lines of a         *)
(* submitted chunk nor the range; a worker finishing task i changes task i     *)
(* only, and leaves in it the result of analyze_chunk on the lines that were   *)
(* submitted; after a submit the accumulator of the reader is a new empty list *)
(* and the lines read later go to later chunks.                                *)
C26_ChunkIsolation ==
    [][ /\ \A i \in DOMAIN tasks : i \in DOMAIN tasks' /\ tasks'[i].chunk = tasks[i].chunk
        /\ pc \notin {"main"} => (start_time' = start_time /\ end_time' = end_time)
        /\ \A i \in DOMAIN tasks :
              tasks'[i] # tasks[i] =>
                  /\ \A j \in DOMAIN tasks \ {i} : tasks'[j] = tasks[j]
                  /\ Len(tasks') = Len(tasks)
                  /\ lines_chunk' = lines_chunk
                  /\ tasks'[i].state = "running" =>
                        (tasks'[i].color = EmptyCounter /\ tasks'[i].pos = EmptyCounter)
                  /\ tasks'[i].state \in {"ok", "error"} =>
                        LET alone == ChunkResult(variant, ChunkAt(i), start_time, end_time)
                        IN  /\ tasks'[i].state = alone.status
                            /\ tasks'[i].color = alone.color
                            /\ tasks'[i].pos = alone.pos
        /\ (Len(tasks') > Len(tasks) /\ pc' = "read") => lines_chunk' = <<>>
      ]_vars

\* a worker has the result of its chunk while the reader is still filling another chunk
C26_Witness ==
    /\ pc = "read"
    /\ lines_chunk # <<>>
    /\ \E i \in DOMAIN tasks : tasks[i].state = "ok" /\ tasks[i].color # EmptyCounter
    /\ \E i \in DOMAIN tasks : tasks[i].state = "running"

(* C27: merge ordering. Nothing is merged before the whole file is read and   *)
(* every chunk submitted; the merged tasks are always the first t-1 tasks in   *)
(* submission order, also when a later task was finished first; and the        *)
(* returned tables have their keys in the order of one pass over the whole     *)
(* body, whatever the completion order.                                        *)
C27_MergeOrdering ==
    /\ (t > 1 \/ color_counter # EmptyCounter \/ pos_counter # EmptyCounter) =>
          /\ pc \notin {"main", "pool", "open", "header", "read"}
          /\ f > Len(file)
          /\ Submitted(tasks) = Body
    /\ t <= Len(tasks) + 1
    /\ \A i \in 1..(t - 1) : tasks[i].state = "ok"
    /\ pc = "done" =>
          LET pass == Sequential(variant, Body, start_time, end_time, Len(Body)) IN
          /\ [i \in DOMAIN result[1] |-> result[1][i].key]
                = [i \in DOMAIN pass.color |-> pass.color[i].key]
          /\ [i \in DOMAIN result[2] |-> result[2][i].key]
                = [i \in DOMAIN pass.pos |-> pass.pos[i].key]

\* the main process waits for the first task while the second is already finished
C27_Witness ==
    /\ pc = "merge"
    /\ t = 1
    /\ Len(tasks) >= 2
    /\ tasks[1].state = "running"
    /\ tasks[2].state = "ok"
    /\ tasks[2].color # EmptyCounter
    /\ color_counter = EmptyCounter

\* every entry of the table has a count of at least 1, and no key occurs twice
WellFormedTable(c) ==
    /\ \A i \in DOMAIN c : c[i].n >= 1
    /\ \A i, j \in DOMAIN c : c[i].key = c[j].key => i = j

(* C28: table well-formedness. The partial tables of a finished chunk and the *)
(* two accumulators hold only keys with a count of at least 1; and in every    *)
(* step the accumulators keep all their keys and no count of them decreases.   *)
C28_TableWellFormed ==
    /\ [](/\ \A i \in LastCompleted :
                WellFormedTable(tasks[i].color) /\ WellFormedTable(tasks[i].pos)
          /\ WellFormedTable(color_counter)
          /\ WellFormedTable(pos_counter))
    /\ [][ /\ \A k \in Keys(color_counter) : Count(color_counter', k) >= Count(color_counter, k)
           /\ \A k \in Keys(pos_counter) : Count(pos_counter', k) >= Count(pos_counter, k)
      ]_vars

\* the accumulator has a key counted in two partial tables and a key merged between them
C28_Witness ==
    /\ variant = "Week1"
    /\ pc = "merge"
    /\ t = 5
    /\ Len(color_counter) = 3
    /\ color_counter[2].n = 2
    /\ Count(tasks[2].color, color_counter[2].key) = 1
    /\ Count(tasks[4].color, color_counter[2].key) = 1
    /\ Count(tasks[3].color, color_counter[3].key) = 1

\* the other shipped variant of the engine
OtherVariant == IF variant = "Week1" THEN "root" ELSE "Week1"

(* C29: variant equivalence. The tables a run returns are the tables the      *)
(* other variant of the engine returns on the same file and range, with        *)
(* whatever chunk size the other variant has.                                  *)
C29_VariantEquivalence ==
    pc = "done" =>
        \A c \in OtherChunkSizes :
            LET o == Sequential(OtherVariant, Body, start_time, end_time, c) IN
            /\ TableOf(result[1]) = TableOf(o.color)
            /\ TableOf(result[2]) = TableOf(o.pos)

\* the number written with the decimal digits d
RECURSIVE Num(_)
Num(d) == IF d = <<>> THEN 0 ELSE Num(SubSeq(d, 1, Len(d) - 1)) * 10 + (d[Len(d)] - 48)

\* the instant of an event timestamp read with DATA_DT_FORMAT
\* ('%Y-%m-%d %H:%M:%S.%f UTC', %f being 1 to 6 digits): its hour as a datetime,
\* the seconds past the hour and the microseconds past the second
EventInstant(ts) ==
    LET frac == SubSeq(ts, 21, Len(ts) - 4) IN
    [ hour |-> InstantOf([year |-> Num(SubSeq(ts, 1, 4)), month |-> Num(SubSeq(ts, 6, 7)),
                          day |-> Num(SubSeq(ts, 9, 10)), hour |-> Num(SubSeq(ts, 12, 13))]),
      second |-> Num(SubSeq(ts, 15, 16)) * 60 + Num(SubSeq(ts, 18, 19)),
      micro |-> Num(frac \o [i \in 1..(6 - Len(frac)) |-> 48]) ]

\* the instant of the event lies in [start, end], start and end being full hours
Chronological(ts, start, end) ==
    LET ev == EventInstant(ts) IN
    /\ InstantOf(start) <= ev.hour
    /\ \/ ev.hour < InstantOf(end)
       \/ ev.hour = InstantOf(end) /\ ev.second = 0 /\ ev.micro = 0

(* C23: lexicographic order is chronological order for the filter. A chunk    *)
(* computation counts a record exactly when the instant of its timestamp lies  *)
(* between the instants of the two bounds given to main, both included.        *)
C23_LexicographicIsChronological ==
    \A i \in DOMAIN tasks :
        tasks[i].state = "ok" =>
            Total(tasks[i].color)
                = Cardinality({ k \in DOMAIN tasks[i].chunk :
                                  Chronological(CsvRow(tasks[i].chunk[k])[1],
                                                args[1], args[2]) })

\* YYYY-MM-DD HH:00:00.000000 UTC
HourForm(s) ==
    /\ Len(s) = 30
    /\ \A i \in {1, 2, 3, 4, 6, 7, 9, 10, 12, 13} : s[i] \in 48..57
    /\ s[5] = 45 /\ s[8] = 45 /\ s[11] = 32
    /\ SubSeq(s, 14, 30) = <<58, 48, 48, 58, 48, 48, 46, 48, 48, 48, 48, 48, 48, 32, 85, 84, 67>>

(* C24: range normalization. Once validate_time_range has accepted the pair   *)
(* of main, both bounds have the form YYYY-MM-DD HH:00:00.000000 UTC and the   *)
(* start string is less than the end string.                                   *)
C24_RangeNormalization ==
    (entry = "main" /\ pc \notin {"main", "failed"}) =>
        /\ HourForm(start_time)
        /\ HourForm(end_time)
        /\ StrLess(start_time, end_time)

\* the sum of a sequence of numbers
RECURSIVE Sum(_)
Sum(q) == IF q = <<>> THEN 0 ELSE Head(q) + Sum(Tail(q))

\* the lengths in seconds of the sessions of the ascending timestamps ts, a new
\* session starting at every timestamp more than 15 minutes after the one before
SessionSeconds(ts) ==
    LET starts == {1} \cup { i \in 2..Len(ts) : ts[i] - ts[i - 1] > 15 }
        last(a) == IF \E b \in starts : b > a
                   THEN (CHOOSE b \in starts : b > a /\ \A c \in starts : c > a => b <= c) - 1
                   ELSE Len(ts)
        nth(r) == CHOOSE a \in starts : Cardinality({ b \in starts : b < a }) = r - 1
    IN  [ r \in 1..Cardinality(starts) |-> (ts[last(nth(r))] - ts[nth(r)]) * 60 ]

\* what a user contributes: the positive session lengths, nothing for a single placement
Contribution(user_id) ==
    LET ts == array_sort(UserTimestamps(user_id)) IN
    IF Len(ts) <= 1 THEN <<>> ELSE SelectSeq(SessionSeconds(ts), LAMBDA x : x > 0)

\* the contributions of the first n users, in the order of user_ids
RECURSIVE Contributions(_)
Contributions(n) ==
    IF n = 0 THEN <<>> ELSE Contributions(n - 1) \o Contribution(user_ids[n])

(* C30: session splitting (Week 3). The returned list holds, user by user, the *)
(* positive lengths in seconds of the sessions of the user's ascending          *)
(* timestamps, a new session starting exactly at a gap of more than 15 minutes; *)
(* a user with at most one placement contributes nothing; every length is       *)
(* positive, and the lengths of one user sum to at most last minus first.       *)
C30_SessionSplitting ==
    /\ \A i \in DOMAIN session_lengths : session_lengths[i] > 0
    /\ \A i \in DOMAIN user_sessions : user_sessions[i] > 0
    /\ pc3 = "user" => session_lengths = Contributions(user_index - 1)
    /\ pc3 = "scan" =>
          /\ \A i \in 2..Len(timestamps_py) : timestamps_py[i - 1] <= timestamps_py[i]
          /\ Sum(user_sessions) + (prev_timestamp - current_session_start) * 60
                <= (prev_timestamp - timestamps_py[1]) * 60
    /\ pc3 = "returned" =>
          /\ session_lengths = Contributions(Len(user_ids))
          /\ \A n \in DOMAIN user_ids :
                LET ts == array_sort(UserTimestamps(user_ids[n])) IN
                /\ Len(ts) <= 1 => Contribution(user_ids[n]) = <<>>
                /\ Sum(Contribution(user_ids[n])) <= (ts[Len(ts)] - ts[1]) * 60

\* placements at 31, 0 and 15 minutes of one user: one session of 15 minutes (the gap
\* of exactly 15 minutes does not split), and the session of the placement at 31 alone
\* is dropped
C30_Witness ==
    /\ pc3 = "returned"
    /\ table = << [user |-> 1, ts |-> 31], [user |-> 1, ts |-> 0], [user |-> 1, ts |-> 15] >>
    /\ session_lengths = <<900>>

====
